---- MODULE Spec2Model ----
(***************************************************************************)
(* Depth-map integration driver of maplab's dense reconstruction           *)
(* (depth-map-integration.cc): the frame-attached path                     *)
(* integrateAllFrameDepthMapResourcesOfTypeImpl and the free-running       *)
(* (optional sensor) path                                                  *)
(* integrateAllOptionalSensorDepthMapResourcesOfTypeImpl.                  *)
(*                                                                         *)
(* The map (vi_map) is read-only during one call and every part of it is   *)
(* read once, so the model fixes a part of the map at the step that reads  *)
(* it: a mission when the mission loop reaches it, a sensor with its       *)
(* resource buffer when the sensor loop reaches it, a vertex when the      *)
(* vertex loop fetches it.  A rigid transform is modelled by the data that *)
(* determines it: the interpolated pose at time ts is ts, and the product  *)
(* T_G_M * T_M_B * T_B_C is the triple <<mission, pose, sensor>>.          *)
(***************************************************************************)
EXTENDS Integers, Sequences, FiniteSets, TLC

\* ------------------------------------------------------------------ bounds
MaxMissions == 2
MaxSensors == 2
MaxRes == 2
MaxLines == 2
MaxVertices == 2
MaxFrames == 2

\* Sample values.  Only the position of a timestamp relative to the trajectory
\* range decides what the driver does with it, so the capture times cover
\* below, at the lower end, inside, at the upper end and above the range.
Times == 0..4

Shifts == {0, 1}

LineDelays == {0, 1}

\* ------------------------------------------------------- program constants
ResourceTypes == {"kRawDepthMap", "kOptimizedDepthMap", "kPointCloudXYZ"}

kSupportedDepthMapInputTypes == {"kRawDepthMap", "kOptimizedDepthMap"}

\* ---------------------------------------------------------------- helpers
Min(a, b) == IF a < b THEN a ELSE b

Max(a, b) == IF a > b THEN a ELSE b

\* Temporal resource buffers: ascending, unique capture timestamps.
Ascending(s) == \A i \in 1..(Len(s) - 1) : s[i] < s[i + 1]

Buffers == {s \in UNION {[1..n -> Times] : n \in 0..MaxRes} : Ascending(s)}

\* Trajectory time ranges reported for a mission with IMU data.
Ranges == {<<1, 3>>, <<2, 2>>}

IsSupportedMut(type) == TRUE

IsSupported(type) == type \in kSupportedDepthMapInputTypes

ClampMut(t, lo, hi) == Min(hi, t)

ClampUpperMut(t, lo, hi) == Max(lo, t)

Clamp(t, lo, hi) == Max(lo, Min(hi, t))

NumLinesPerDepthMapMut(enable, lines) == lines

NumLinesPerDepthMap(enable, lines) == IF enable THEN lines ELSE 1

LineDelayNs(enable, delay) == IF enable THEN delay ELSE 0

TotalNumberOfPosesMut(n, lines) == n

\* uint32_t total_number_of_poses; the product stays far below 2^32 for the
\* buffer sizes and line counts of the model.
TotalNumberOfPoses(n, lines) == n * lines

\* resource_timestamps after the collecting loop: entry k (0-based) belongs to
\* resource k \div lines and line k % lines.
ResourceTimestamps(buf, sh, lines, delay, lo, hi) ==
  [k \in 1..(Len(buf) * lines) |->
     Clamp(buf[((k - 1) \div lines) + 1] + sh + ((k - 1) % lines) * delay, lo, hi)]

\* Pose interpolation at the requested timestamps (same length, same order).
PosesAtTime(ts) == [k \in 1..Len(ts) |-> ts[k]]

StampedResourceMut(buf, i) == buf[Len(buf) + 1 - i]

StampedResource(buf, i) == buf[i]

\* const int64_t corrected_timestamp_ns = resource_timestamps[idx];
\* the statement after it, timestamp_ns + timestamp_shift_ns;, has no effect.
CorrectedTimestamp(ts, cursor, raw, sh) == ts[cursor + 1]

OutOfRangeMut(c, lo, hi) == c <= lo \/ c > hi

OutOfRange(c, lo, hi) == c < lo \/ c > hi

AdvanceCursorMut(cursor, lines) == cursor + 1

\* idx after the pose-extracting loop of one resource: ++idx once per line.
AdvanceCursor(cursor, lines) == cursor + lines

SlicePosesMut(m, s, poses, cursor, lines) ==
  [j \in 1..lines |-> <<m, poses[j], s>>]

\* T_G_C_vec of one resource: num_lines poses starting at the pose cursor.
SlicePoses(m, s, poses, cursor, lines) ==
  [j \in 1..lines |-> <<m, poses[cursor + j], s>>]

BreakRequestedMut(enabled, flag) == FALSE

BreakRequested(enabled, flag) == enabled /\ flag

AfterMissingFrameMut(f, n) == n

AfterMissingFrame(f, n) == f + 1

ResultLengthOkMut(res, tot) == TRUE

\* CHECK_EQ(poses_M_B.size(), total_number_of_poses)
ResultLengthOk(res, tot) == Len(res) = tot

OnNoTrajectorySupportMut == "done"

\* vertex_to_time_map.empty(): continue with the next mission.
OnNoTrajectorySupport == "mission"

AfterBreakObservedMut == "sensor"

\* isBreakRequested() is true: return from the call.
AfterBreakObserved == "aborted"

\* Companion image resource types and the types each path probes, in order.
ImageTypes == {"kImageForDepthMap", "kColorImageForDepthMap", "kRawImage"}

FrameProbes == <<"kImageForDepthMap", "kRawImage">>

SensorProbes == <<"kImageForDepthMap", "kColorImageForDepthMap">>

ResolveImageSwappedMut(probes, avail) ==
  IF probes[2] \in avail THEN probes[2]
  ELSE IF probes[1] \in avail THEN probes[1]
  ELSE "none"

ResolveImageStaleMut(probes, avail) ==
  IF probes[1] \in avail THEN probes[1] ELSE probes[2]

\* cv::Mat image after the if / else-if chain of lookups; "none" is the empty
\* image.
ResolveImage(probes, avail) ==
  IF probes[1] \in avail THEN probes[1]
  ELSE IF probes[2] \in avail THEN probes[2]
  ELSE "none"

AdapterAcceptsMut(poses) == Len(poses) = 1

\* The adapter around a single-pose integration function:
\* CHECK_GE(T_G_C_vec.size(), 1u), then T_G_C_vec.at(0) is forwarded.
AdapterAccepts(poses) == Len(poses) >= 1

AdapterForward(poses) == poses[1]

\* What the caller's integration function receives.
Delivered(single, poses) == IF single THEN AdapterForward(poses) ELSE poses

\* ------------------------------------------------------------------ state
VARIABLES
  \* arguments and flags of the call
  path, inputType, gateEnabled, rsComp, shift, numMissions,
  \* single-pose integration function behind the adapter, or pose-vector one
  singlePose,
  \* companion image types the resource store holds for the depth maps
  imageKinds,
  \* control
  pc, missionIdx, examined, abortFlag, fatalCause,
  \* free-running path: locals of the mission loop body
  minNs, maxNs, sensorIdx,
  \* free-running path: locals of the sensor loop body
  buffer, camLines, camDelay, numLines, lineDelay, total,
  resourceTimestamps, posesMB, idx, resIdx,
  \* frame-attached path: locals of the mission and vertex loop bodies
  numVertices, vertexIdx, numFrames, frameAvail, frameIdx,
  \* observation of the current sensor (free-running) or vertex (frame-attached):
  \* integration-function calls, break polls, interpolator calls, depth-map
  \* lookups, and where the calls stood when the break was requested
  calls, polls, interpCalls, lookups, callsAtAbort, abortInVertex,
  \* the last step skipped a mission without trajectory support; a poll has
  \* observed the break request
  noSupportSkip, observed

cfgVars == <<path, inputType, gateEnabled, rsComp, shift, numMissions,
             singlePose, imageKinds>>

missionVars == <<minNs, maxNs, sensorIdx>>

sensorVars == <<buffer, camLines, camDelay, numLines, lineDelay, total,
                resourceTimestamps, posesMB, idx, resIdx, interpCalls, lookups>>

frameVars == <<numVertices, vertexIdx, numFrames, frameAvail, frameIdx>>

abortVars == <<abortFlag, callsAtAbort, abortInVertex>>

vars == <<path, inputType, gateEnabled, rsComp, shift, numMissions,
          singlePose, imageKinds, noSupportSkip, observed,
          pc, missionIdx, examined, abortFlag, fatalCause,
          minNs, maxNs, sensorIdx,
          buffer, camLines, camDelay, numLines, lineDelay, total,
          resourceTimestamps, posesMB, idx, resIdx,
          numVertices, vertexIdx, numFrames, frameAvail, frameIdx,
          calls, polls, interpCalls, lookups, callsAtAbort, abortInVertex>>

Terminal == {"done", "aborted", "fatal"}

\* State at the entry of the call, whatever its arguments.
Entry ==
  /\ pc = "start"
  /\ missionIdx = 0
  /\ examined = FALSE
  /\ abortFlag = FALSE
  /\ fatalCause = "none"
  /\ minNs = 0 /\ maxNs = 0 /\ sensorIdx = 0
  /\ buffer = <<>> /\ camLines = 1 /\ camDelay = 0
  /\ numLines = 1 /\ lineDelay = 0 /\ total = 0
  /\ resourceTimestamps = <<>> /\ posesMB = <<>> /\ idx = 0 /\ resIdx = 0
  /\ numVertices = 0 /\ vertexIdx = 0 /\ numFrames = 0 /\ frameAvail = <<>>
  /\ frameIdx = 0
  /\ calls = <<>> /\ polls = 0 /\ interpCalls = 0 /\ lookups = {}
  /\ callsAtAbort = 0 /\ abortInVertex = <<>>
  /\ noSupportSkip = FALSE /\ observed = FALSE

\* Calls with a pose-vector integration function on a map whose depth maps
\* have no companion images.
Init ==
  /\ path \in {"frame", "optional"}
  /\ inputType \in ResourceTypes
  /\ gateEnabled \in BOOLEAN
  /\ rsComp \in IF path = "optional" THEN BOOLEAN ELSE {TRUE}
  /\ shift \in IF path = "optional" THEN Shifts ELSE {0}
  /\ numMissions \in 0..MaxMissions
  /\ singlePose = FALSE
  /\ imageKinds = {}
  /\ Entry

\* Calls on one mission with either kind of integration function and every
\* combination of companion images in the resource store.
InitCallback ==
  /\ path \in {"frame", "optional"}
  /\ inputType = "kRawDepthMap"
  /\ gateEnabled = TRUE
  /\ rsComp = TRUE
  /\ shift = 0
  /\ numMissions = 1
  /\ singlePose \in BOOLEAN
  /\ imageKinds \in SUBSET ImageTypes
  /\ Entry

\* The locals of a loop body go out of scope when the iteration ends.
LeaveMissionScope ==
  minNs' = 0 /\ maxNs' = 0 /\ sensorIdx' = 0

LeaveSensorScope ==
  /\ buffer' = <<>> /\ camLines' = 1 /\ camDelay' = 0
  /\ numLines' = 1 /\ lineDelay' = 0 /\ total' = 0
  /\ resourceTimestamps' = <<>> /\ posesMB' = <<>> /\ idx' = 0 /\ resIdx' = 0
  /\ calls' = <<>> /\ polls' = 0 /\ interpCalls' = 0 /\ lookups' = {}

LeaveVertexScope ==
  numFrames' = 0 /\ frameAvail' = <<>> /\ frameIdx' = 0 /\ calls' = <<>>

\* ------------------------------------------------- entry checks, both paths
\* CHECK_GT(kSupportedDepthMapInputTypes.count(input_resource_type), 0u)
CheckInputType ==
  /\ pc = "start"
  /\ IF IsSupported(inputType)
       THEN /\ pc' = (IF path = "frame" THEN "fmission" ELSE "mission")
            /\ missionIdx' = 1
            /\ fatalCause' = fatalCause
       ELSE /\ pc' = "fatal"
            /\ fatalCause' = "type"
            /\ missionIdx' = missionIdx
  /\ UNCHANGED <<cfgVars, noSupportSkip, observed,
                 examined, abortVars, missionVars, sensorVars,
                 frameVars, calls, polls>>

\* The user requests a break (SIGINT) while the call runs; the breaker only
\* exists when the gate flag is enabled.
SetAbort ==
  /\ gateEnabled
  /\ ~abortFlag
  /\ pc \notin Terminal
  /\ abortFlag' = TRUE
  /\ callsAtAbort' = Len(calls)
  /\ abortInVertex' = (IF pc = "frame" THEN <<missionIdx, vertexIdx>> ELSE <<>>)
  /\ UNCHANGED <<cfgVars, noSupportSkip, observed,
                 pc, missionIdx, examined, fatalCause, missionVars,
                 sensorVars, frameVars, calls, polls>>

\* -------------------------------------------------------- free-running path
\* Head of the mission loop: trajectory support and the sensor-to-buffer map.
NextMission ==
  /\ pc = "mission"
  /\ IF missionIdx > numMissions
       THEN /\ pc' = "done"
            /\ noSupportSkip' = FALSE
            /\ UNCHANGED <<missionIdx, examined, missionVars>>
       ELSE /\ examined' = TRUE
            /\ \/ \* vertex_to_time_map.empty()
                  /\ missionIdx' = missionIdx + 1
                  /\ pc' = OnNoTrajectorySupport
                  /\ noSupportSkip' = TRUE
                  /\ UNCHANGED missionVars
               \/ \* no buffers of this resource type in the mission
                  /\ missionIdx' = missionIdx + 1
                  /\ pc' = "mission"
                  /\ noSupportSkip' = FALSE
                  /\ UNCHANGED missionVars
               \/ \E r \in Ranges :
                    /\ minNs' = r[1]
                    /\ maxNs' = r[2]
                    /\ sensorIdx' = 1
                    /\ pc' = "sensor"
                    /\ missionIdx' = missionIdx
                    /\ noSupportSkip' = FALSE
  /\ UNCHANGED <<cfgVars, observed,
                 abortVars, fatalCause, sensorVars, frameVars, calls,
                 polls>>

\* Head of the sensor loop up to CHECK_EQ(idx, total_number_of_poses): camera,
\* rolling-shutter parameters and the batched timestamp array.  The map of
\* sensor buffers is read as it is iterated: it ends, or holds one more sensor.
NextSensor ==
  /\ pc = "sensor"
  /\ \/ \* the sensor map is exhausted
        /\ pc' = "mission"
        /\ missionIdx' = missionIdx + 1
        /\ LeaveMissionScope
        /\ UNCHANGED <<sensorVars, calls, polls, fatalCause>>
     \/ /\ sensorIdx <= MaxSensors
        /\ \/ \* the sensor is not an NCamera with exactly one camera
              /\ pc' = "fatal"
              /\ fatalCause' = "sensor"
              /\ UNCHANGED <<sensorVars, calls, polls>>
           \/ \E buf \in Buffers, lines \in 1..MaxLines, delay \in LineDelays :
                LET nl == NumLinesPerDepthMap(rsComp, lines)
                    ld == LineDelayNs(rsComp, delay)
                    ts == ResourceTimestamps(buf, shift, nl, ld, minNs, maxNs)
                    tot == TotalNumberOfPoses(Len(buf), nl)
                IN  /\ buffer' = buf
                    /\ camLines' = lines
                    /\ camDelay' = delay
                    /\ numLines' = nl
                    /\ lineDelay' = ld
                    /\ total' = tot
                    /\ resourceTimestamps' = ts
                    /\ idx' = Len(ts)
                    /\ UNCHANGED <<posesMB, resIdx, interpCalls, lookups,
                                   calls, polls>>
                    /\ IF Len(ts) = tot
                         THEN pc' = "interp" /\ fatalCause' = fatalCause
                         ELSE pc' = "fatal" /\ fatalCause' = "cursor"
        /\ UNCHANGED <<missionIdx, missionVars>>
  /\ UNCHANGED <<cfgVars, noSupportSkip, observed,
                 examined, abortVars, frameVars>>

\* The one batched getPosesAtTime call and the checks on its result length.
Interpolate ==
  /\ pc = "interp"
  /\ interpCalls' = interpCalls + 1
  /\ \E res \in {PosesAtTime(resourceTimestamps),
                 Append(PosesAtTime(resourceTimestamps), 0),
                 SubSeq(PosesAtTime(resourceTimestamps), 1,
                        Len(resourceTimestamps) - 1)} :
       /\ posesMB' = res
       /\ IF ResultLengthOk(res, total)
            THEN /\ pc' = "poll"
                 /\ idx' = 0
                 /\ resIdx' = 1
                 /\ fatalCause' = fatalCause
            ELSE /\ pc' = "fatal"
                 /\ fatalCause' = "interp"
                 /\ UNCHANGED <<idx, resIdx>>
  /\ UNCHANGED <<cfgVars, noSupportSkip, observed,
                 missionIdx, examined, abortVars, missionVars,
                 buffer, camLines, camDelay, numLines, lineDelay, total,
                 resourceTimestamps, lookups, frameVars, calls, polls>>

\* Head of the resource loop: CHECK_LT(idx, total) and the break poll.
PollResource ==
  /\ pc = "poll"
  /\ IF resIdx > Len(buffer)
       THEN /\ pc' = "sensor"
            /\ sensorIdx' = sensorIdx + 1
            /\ LeaveSensorScope
            /\ UNCHANGED <<minNs, maxNs, fatalCause>>
       ELSE /\ UNCHANGED <<missionVars, sensorVars, calls>>
            /\ IF ~(idx < total)
                 THEN pc' = "fatal" /\ fatalCause' = "cursor" /\ polls' = polls
                 ELSE /\ polls' = (IF gateEnabled THEN polls + 1 ELSE polls)
                      /\ fatalCause' = fatalCause
                      /\ pc' = (IF BreakRequested(gateEnabled, abortFlag)
                                  THEN AfterBreakObserved ELSE "handle")
  /\ observed' = (/\ resIdx <= Len(buffer)
                  /\ idx < total
                  /\ BreakRequested(gateEnabled, abortFlag))
  /\ UNCHANGED <<cfgVars, noSupportSkip,
                 missionIdx, examined, abortVars, frameVars>>

\* Body of the resource loop after the poll: pose slice, range check, depth-map
\* lookup and the call of the integration function.
HandleResource ==
  /\ pc = "handle"
  /\ LET timestamp_ns == StampedResource(buffer, resIdx)
         corrected_timestamp_ns == CorrectedTimestamp(resourceTimestamps, idx,
                                                      timestamp_ns, shift)
         T_G_C_vec == SlicePoses(missionIdx, sensorIdx, posesMB, idx, numLines)
     IN  /\ idx' = AdvanceCursor(idx, numLines)
         /\ IF OutOfRange(corrected_timestamp_ns, minNs, maxNs)
              THEN /\ pc' = "poll"
                   /\ resIdx' = resIdx + 1
                   /\ UNCHANGED <<calls, lookups, fatalCause>>
              ELSE IF ~IsSupported(inputType)
                THEN /\ pc' = "fatal"
                     /\ fatalCause' = "type"
                     /\ UNCHANGED <<calls, lookups, resIdx>>
                ELSE /\ lookups' = lookups \cup {resIdx}
                     /\ \/ \* getSensorResource finds no depth map: LOG(FATAL)
                           /\ pc' = "fatal"
                           /\ fatalCause' = "lookup"
                           /\ UNCHANGED <<calls, resIdx>>
                        \/ /\ singlePose /\ ~AdapterAccepts(T_G_C_vec)
                           /\ pc' = "fatal"
                           /\ fatalCause' = "adapter"
                           /\ UNCHANGED <<calls, resIdx>>
                        \/ /\ singlePose => AdapterAccepts(T_G_C_vec)
                           /\ calls' = Append(calls,
                                 [ts |-> timestamp_ns, res |-> resIdx,
                                  poses |-> T_G_C_vec,
                                  cameraLines |-> camLines,
                                  delivered |-> Delivered(singlePose,
                                                          T_G_C_vec),
                                  image |-> ResolveImage(SensorProbes,
                                                         imageKinds)])
                           /\ pc' = "poll"
                           /\ resIdx' = resIdx + 1
                           /\ fatalCause' = fatalCause
  /\ UNCHANGED <<cfgVars, noSupportSkip, observed,
                 missionIdx, examined, abortVars, missionVars,
                 buffer, camLines, camDelay, numLines, lineDelay, total,
                 resourceTimestamps, posesMB, interpCalls, frameVars, polls>>

\* ------------------------------------------------------ frame-attached path
\* Head of the mission loop: NCamera of the mission and its vertices.
FrameNextMission ==
  /\ pc = "fmission"
  /\ IF missionIdx > numMissions
       THEN /\ pc' = "done"
            /\ UNCHANGED <<missionIdx, examined, numVertices, vertexIdx, polls>>
       ELSE /\ examined' = TRUE
            /\ \/ \* !mission.hasNCamera()
                  /\ missionIdx' = missionIdx + 1
                  /\ pc' = "fmission"
                  /\ UNCHANGED <<numVertices, vertexIdx, polls>>
               \/ \E nv \in 0..MaxVertices :
                    /\ numVertices' = nv
                    /\ vertexIdx' = 1
                    /\ polls' = 0
                    /\ pc' = "vpoll"
                    /\ missionIdx' = missionIdx
  /\ UNCHANGED <<cfgVars, noSupportSkip, observed,
                 abortVars, fatalCause, missionVars, sensorVars,
                 numFrames, frameAvail, frameIdx, calls>>

\* Head of the vertex loop: the break poll, then the vertex and its frames.
PollVertex ==
  /\ pc = "vpoll"
  /\ IF vertexIdx > numVertices
       THEN /\ pc' = "fmission"
            /\ missionIdx' = missionIdx + 1
            /\ numVertices' = 0
            /\ vertexIdx' = 0
            /\ polls' = 0
            /\ UNCHANGED <<numFrames, frameAvail, frameIdx>>
       ELSE /\ UNCHANGED <<missionIdx, numVertices, vertexIdx>>
            /\ polls' = (IF gateEnabled THEN polls + 1 ELSE polls)
            /\ IF BreakRequested(gateEnabled, abortFlag)
                 THEN /\ pc' = AfterBreakObserved
                      /\ UNCHANGED <<numFrames, frameAvail, frameIdx>>
                 ELSE \E nf \in 0..MaxFrames :
                        \E avail \in [1..nf -> BOOLEAN] :
                          /\ numFrames' = nf
                          /\ frameAvail' = avail
                          /\ frameIdx' = 0
                          /\ pc' = "frame"
  /\ observed' = (/\ vertexIdx <= numVertices
                  /\ BreakRequested(gateEnabled, abortFlag))
  /\ UNCHANGED <<cfgVars, noSupportSkip,
                 examined, abortVars, fatalCause, missionVars,
                 sensorVars, calls>>

\* One iteration of the frame loop: depth-map lookup and the call of the
\* integration function with the single pose T_G_C.
HandleFrame ==
  /\ pc = "frame"
  /\ IF ~(frameIdx < numFrames)
       THEN /\ pc' = "vpoll"
            /\ vertexIdx' = vertexIdx + 1
            /\ LeaveVertexScope
            /\ UNCHANGED fatalCause
       ELSE /\ UNCHANGED <<vertexIdx, numFrames, frameAvail>>
            /\ IF ~IsSupported(inputType)
                 THEN /\ pc' = "fatal"
                      /\ fatalCause' = "type"
                      /\ UNCHANGED <<frameIdx, calls>>
                 ELSE /\ pc' = "frame"
                      /\ fatalCause' = fatalCause
                      /\ IF ~frameAvail[frameIdx + 1]
                           THEN /\ frameIdx' = AfterMissingFrame(frameIdx, numFrames)
                                /\ calls' = calls
                           ELSE LET T_G_C_vec == <<<<missionIdx, vertexIdx,
                                                    frameIdx>>>>
                                IN  \* the adapter's CHECK_GE holds for the
                                    \* one-element vector built here
                                    /\ singlePose => AdapterAccepts(T_G_C_vec)
                                    /\ calls' = Append(calls,
                                          [m |-> missionIdx, v |-> vertexIdx,
                                           f |-> frameIdx,
                                           poses |-> T_G_C_vec,
                                           delivered |-> Delivered(singlePose,
                                                                   T_G_C_vec),
                                           image |-> ResolveImage(FrameProbes,
                                                                  imageKinds)])
                                    /\ frameIdx' = frameIdx + 1
  /\ UNCHANGED <<cfgVars, noSupportSkip, observed,
                 missionIdx, examined, abortVars, missionVars,
                 sensorVars, numVertices, polls>>

\* ---------------------------------------------------------- specification
Next ==
  \/ CheckInputType
  \/ SetAbort
  \/ NextMission
  \/ NextSensor
  \/ Interpolate
  \/ PollResource
  \/ HandleResource
  \/ FrameNextMission
  \/ PollVertex
  \/ HandleFrame

Spec == Init /\ [][Next]_vars

SpecCallback == InitCallback /\ [][Next]_vars

\* ------------------------------------------------------------- properties
Optional == path = "optional"

FrameAttached == path = "frame"

\* t + globalShift, the value before clamping, lies in the trajectory range.
InRange(t) == minNs <= t + shift /\ t + shift <= maxNs

CallsFor(i) == {k \in 1..Len(calls) : calls[k].res = i}

\* The resource loop of the current sensor has consumed the whole buffer.
BufferExhausted == pc = "poll" /\ resIdx > Len(buffer)

\* C1: free-running path: a resource whose t + globalShift is outside
\* [min_ns, max_ns] is never passed to the integration function and never
\* raises a fatal error.
C1_OutOfRangeNeverDispatched ==
  Optional =>
    /\ \A k \in 1..Len(calls) : InRange(calls[k].ts)
    /\ (pc = "fatal" /\ fatalCause = "lookup") => InRange(buffer[resIdx])

\* C2: free-running path: without cancellation and fatal error, every resource
\* the loop has passed whose t + globalShift is in range (its lookup then
\* succeeded) was passed to the integration function exactly once, and no
\* resource is ever passed twice.
C2_InRangeDispatchedOnce ==
  Optional =>
    /\ \A i \in 1..Len(buffer) : Cardinality(CallsFor(i)) <= 1
    /\ \A k \in 1..Len(calls) :
         calls[k].res \in 1..Len(buffer) /\ calls[k].ts = buffer[calls[k].res]
    /\ pc \in {"poll", "handle"} =>
         \A i \in 1..Len(buffer) :
           (i < resIdx /\ InRange(buffer[i])) => Cardinality(CallsFor(i)) = 1

C2_Witness ==
  /\ Optional
  /\ BufferExhausted
  /\ Len(buffer) >= 2
  /\ \A i \in 1..Len(buffer) : InRange(buffer[i])
  /\ Len(calls) = Len(buffer)

\* C3: free-running path: with min_ns <= max_ns every entry of the timestamp
\* array handed to the pose interpolator lies in [min_ns, max_ns], and clamping
\* it again leaves it unchanged.
C3_TimestampsClamped ==
  (Optional /\ minNs <= maxNs) =>
    \A k \in 1..Len(resourceTimestamps) :
      /\ minNs <= resourceTimestamps[k]
      /\ resourceTimestamps[k] <= maxNs
      /\ Max(minNs, Min(maxNs, resourceTimestamps[k])) = resourceTimestamps[k]

C3_Witness ==
  /\ Optional
  /\ pc = "poll"
  /\ interpCalls = 1
  /\ \E i \in 1..Len(buffer) : buffer[i] + shift < minNs
  /\ \E i \in 1..Len(buffer) :
       buffer[i] + shift + (numLines - 1) * lineDelay > maxNs
  /\ numLines > 1

\* C4 as claimed: free-running path: under every configuration the pose list of
\* a call has as many poses as the camera model of the same call has lines.
C4_PosesEqualCameraLines ==
  Optional => \A k \in 1..Len(calls) : Len(calls[k].poses) = calls[k].cameraLines

\* C4 as amended: the pose list has as many poses as the camera model has lines
\* when rolling-shutter compensation is enabled, and exactly one pose when it
\* is disabled.
C4_PosesEqualEffectiveLines ==
  Optional =>
    \A k \in 1..Len(calls) :
      Len(calls[k].poses) = (IF rsComp THEN calls[k].cameraLines ELSE 1)

C4_Witness ==
  /\ Optional
  /\ ~rsComp
  /\ \E k \in 1..Len(calls) : calls[k].cameraLines > 1 /\ Len(calls[k].poses) = 1

\* C5: free-running path: within one sensor's buffer the calls of the
\* integration function are in strictly ascending order of resource timestamp.
C5_AscendingDispatch ==
  Optional => \A k \in 1..(Len(calls) - 1) : calls[k].ts < calls[k + 1].ts

C5_Witness == Optional /\ BufferExhausted /\ Len(calls) >= 2

\* C6: free-running path with the gate enabled: the flag is polled once per
\* resource before the resource is handled; when a poll observes it, the sensor
\* has had exactly as many calls as in-range resources were handled before, and
\* the call returns without a fatal error.
C6_AbortAfterKInRange ==
  (Optional /\ gateEnabled) =>
    /\ pc \in {"handle", "aborted"} => polls = resIdx
    /\ pc = "poll" => polls = resIdx - 1
    /\ pc = "aborted" =>
         /\ fatalCause = "none"
         /\ Len(calls) =
              Cardinality({i \in 1..(resIdx - 1) : InRange(buffer[i])})

\* C7: frame-attached path with the gate enabled: the flag is polled once per
\* vertex before any frame of it; when the flag is set while a vertex is being
\* processed, the frames of that vertex are still all handled, no frame of
\* another vertex is handled afterwards, and the step that observes the flag
\* leaves the calls as issued.
C7_State ==
  (FrameAttached /\ gateEnabled) =>
    /\ pc \in {"frame", "aborted"} => polls = vertexIdx
    /\ pc = "vpoll" => polls = vertexIdx - 1
    /\ (abortFlag /\ abortInVertex # <<>> /\ pc = "frame") =>
         /\ <<missionIdx, vertexIdx>> = abortInVertex
         /\ Len(calls) =
              Cardinality({f \in 0..(frameIdx - 1) : frameAvail[f + 1]})

C7_AbortPerVertex ==
  /\ []C7_State
  /\ [][(FrameAttached /\ pc' = "aborted") => calls' = calls]_vars

C7_Witness ==
  /\ FrameAttached
  /\ pc = "frame"
  /\ abortFlag
  /\ abortInVertex = <<missionIdx, vertexIdx>>
  /\ frameIdx = numFrames
  /\ Len(calls) > callsAtAbort
  /\ vertexIdx < numVertices

\* C8: both paths: an input type outside {raw depth map, optimized depth map}
\* ends the call in the fatal state before any mission, vertex or resource is
\* examined and before any call of the integration function.
C8_UnsupportedTypeFatalFirst ==
  inputType \notin {"kRawDepthMap", "kOptimizedDepthMap"} =>
    /\ pc \in {"start", "fatal"}
    /\ pc = "fatal" => fatalCause = "type"
    /\ ~examined
    /\ missionIdx = 0
    /\ calls = <<>>
    /\ lookups = {}
    /\ interpCalls = 0

C8_Witness ==
  /\ inputType \notin {"kRawDepthMap", "kOptimizedDepthMap"}
  /\ pc = "fatal"
  /\ numMissions > 0

\* C9: frame-attached path: a frame without a depth map gets no call and no
\* error and the loop goes on with the next frame; the frames of the vertex
\* that have a depth map get exactly one call each, in ascending frame order.
C9_MissingFrameSkipped ==
  (FrameAttached /\ inputType \in {"kRawDepthMap", "kOptimizedDepthMap"}) =>
    /\ pc # "fatal"
    /\ pc = "frame" =>
         /\ frameIdx <= numFrames
         /\ \A k \in 1..Len(calls) :
              /\ calls[k].m = missionIdx
              /\ calls[k].v = vertexIdx
              /\ calls[k].f \in 0..(frameIdx - 1)
              /\ frameAvail[calls[k].f + 1]
         /\ \A k \in 1..(Len(calls) - 1) : calls[k].f < calls[k + 1].f
         /\ Len(calls) =
              Cardinality({f \in 0..(frameIdx - 1) : frameAvail[f + 1]})

C9_Witness ==
  /\ FrameAttached
  /\ pc = "frame"
  /\ vertexIdx = 2
  /\ numFrames >= 2
  /\ frameIdx = numFrames
  /\ ~frameAvail[1]
  /\ frameAvail[2]
  /\ Len(calls) = Cardinality({f \in 1..numFrames : frameAvail[f]})

\* C10: free-running path: the depth-map lookup is attempted only for a
\* resource whose t + globalShift is in range, so a missing depth map is fatal
\* only for such a resource; after that fatal error there is no call for it or
\* for a later resource.
C10_LookupOnlyInRange ==
  Optional =>
    /\ \A i \in lookups : InRange(buffer[i])
    /\ (pc = "fatal" /\ fatalCause = "lookup") =>
         /\ resIdx \in lookups
         /\ \A k \in 1..Len(calls) : calls[k].res < resIdx

\* C11 as claimed: both paths: the image of a call is the first available
\* companion image in the order (dedicated grayscale, dedicated color, raw
\* grayscale), whatever the path, and empty only if the store holds none.
C11_FirstOfThreeOnBothPaths ==
  \A k \in 1..Len(calls) :
    calls[k].image =
      (IF "kImageForDepthMap" \in imageKinds THEN "kImageForDepthMap"
       ELSE IF "kColorImageForDepthMap" \in imageKinds
         THEN "kColorImageForDepthMap"
       ELSE IF "kRawImage" \in imageKinds THEN "kRawImage"
       ELSE "none")

\* C11 as amended: the frame-attached path passes the dedicated grayscale
\* image if the store has it, else the raw grayscale image, else the empty
\* image; the free-running path passes the dedicated grayscale image if the
\* store has it, else the dedicated color image, else the empty image.
C11_FirstOfProbedPerPath ==
  \A k \in 1..Len(calls) :
    calls[k].image =
      (IF "kImageForDepthMap" \in imageKinds THEN "kImageForDepthMap"
       ELSE IF FrameAttached /\ "kRawImage" \in imageKinds THEN "kRawImage"
       ELSE IF Optional /\ "kColorImageForDepthMap" \in imageKinds
         THEN "kColorImageForDepthMap"
       ELSE "none")

C11_Witness ==
  /\ FrameAttached
  /\ imageKinds = {"kColorImageForDepthMap", "kRawImage"}
  /\ \E k \in 1..Len(calls) : calls[k].image = "kRawImage"

\* C12: both paths: when the store holds no companion image of a type the
\* path probes, every item with a depth map still gets exactly one call, and
\* the image of each call is the empty image.
C12_NoCompanionStillDispatched ==
  /\ (FrameAttached /\ imageKinds \cap {"kImageForDepthMap", "kRawImage"} = {}) =>
       /\ \A k \in 1..Len(calls) : calls[k].image = "none"
       /\ pc = "frame" =>
            \A f \in 0..(frameIdx - 1) :
              frameAvail[f + 1] =>
                Cardinality({k \in 1..Len(calls) : calls[k].f = f}) = 1
  /\ (Optional /\ imageKinds \cap {"kImageForDepthMap",
                                  "kColorImageForDepthMap"} = {}) =>
       /\ \A k \in 1..Len(calls) : calls[k].image = "none"
       /\ pc \in {"poll", "handle"} =>
            \A i \in 1..(resIdx - 1) : Cardinality(CallsFor(i)) = 1

C12_Witness ==
  /\ Optional
  /\ imageKinds = {"kRawImage"}
  /\ BufferExhausted
  /\ Len(calls) = 2
  /\ \A k \in 1..Len(calls) : calls[k].image = "none"

\* C13 as claimed: with a single-pose integration function the adapter lets
\* only pose sequences of length exactly 1 through, so every call that reaches
\* the wrapped function had a pose sequence of length 1.
C13_AdapterExactlyOnePose ==
  singlePose => \A k \in 1..Len(calls) : Len(calls[k].poses) = 1

\* C13 as amended: the adapter accepts every pose sequence of length at least
\* 1 and forwards its element 0; a longer sequence, as produced for a
\* rolling-shutter sensor, is no fatal error.
C13_AdapterAtLeastOnePose ==
  singlePose =>
    /\ fatalCause # "adapter"
    /\ \A k \in 1..Len(calls) :
         /\ Len(calls[k].poses) >= 1
         /\ calls[k].delivered = calls[k].poses[1]

C13_Witness ==
  /\ singlePose
  /\ Optional
  /\ \E k \in 1..Len(calls) :
       /\ Len(calls[k].poses) = 2
       /\ calls[k].delivered = calls[k].poses[1]
       /\ calls[k].poses[2] # calls[k].poses[1]

\* C14: free-running path: the timestamp array of a sensor is completed with
\* numResources x lineCount entries, the interpolator is called exactly once
\* with it before the first call of the integration function for the sensor,
\* and it is not called again while the resources are handled.
C14_OneBatchedInterpolation ==
  Optional =>
    /\ fatalCause # "cursor"
    /\ interpCalls <= 1
    /\ calls # <<>> => interpCalls = 1
    /\ pc = "interp" =>
         /\ interpCalls = 0
         /\ calls = <<>>
         /\ Len(resourceTimestamps) = Len(buffer) * numLines
    /\ pc \in {"poll", "handle"} =>
         /\ interpCalls = 1
         /\ Len(posesMB) = Len(buffer) * numLines

C14_Witness ==
  /\ Optional
  /\ BufferExhausted
  /\ Len(buffer) = 2
  /\ numLines = 2
  /\ interpCalls = 1
  /\ Len(calls) = 2

\* C15: free-running path: the call for a resource with raw timestamp t has
\* one pose per line, in line order, and the pose of line j is
\* T_G_M * P * T_B_C with P the interpolated pose at
\* clamp(t + globalShift + j * lineDelay, min_ns, max_ns), whatever resources
\* came before it in the buffer.
C15_PosePerLine ==
  Optional =>
    LET n == IF rsComp THEN camLines ELSE 1
        d == IF rsComp THEN camDelay ELSE 0
    IN  \A k \in 1..Len(calls) :
          /\ Len(calls[k].poses) = n
          /\ \A j \in 0..(n - 1) :
               calls[k].poses[j + 1] =
                 <<missionIdx,
                   Max(minNs, Min(maxNs, calls[k].ts + shift + j * d)),
                   sensorIdx>>

C15_Witness ==
  /\ Optional
  /\ Len(calls) = 2
  /\ numLines = 2
  /\ lineDelay = 1
  /\ calls[2].poses[1] # calls[2].poses[2]
  /\ calls[1].poses # calls[2].poses

\* C16: free-running path: when the interpolator returns a pose sequence whose
\* length differs from the number of requested timestamps the call ends in the
\* fatal state without any call of the integration function for the sensor;
\* resources are only handled with a result of the requested length.
C16_ResultLengthMismatchFatal ==
  Optional =>
    /\ (pc = "fatal" /\ fatalCause = "interp") =>
         /\ Len(posesMB) # Len(resourceTimestamps)
         /\ calls = <<>>
    /\ (pc \in {"poll", "handle", "aborted"} \/ calls # <<>>) =>
         Len(posesMB) = Len(resourceTimestamps)

C16_Witness ==
  /\ Optional
  /\ pc = "fatal"
  /\ fatalCause = "interp"
  /\ Len(buffer) = 2
  /\ Len(posesMB) # Len(resourceTimestamps)

\* C17: free-running path: skipping a mission without trajectory support
\* leads back to the head of the mission loop with no call of the
\* interpolator or of the integration function and no error, and the call
\* only finishes after the whole mission list has been walked.
C17_NoSupportMissionSkipped ==
  Optional =>
    /\ noSupportSkip =>
         /\ pc = "mission"
         /\ calls = <<>>
         /\ interpCalls = 0
         /\ lookups = {}
         /\ fatalCause = "none"
    /\ pc = "done" => missionIdx = numMissions + 1

C17_Witness ==
  /\ Optional
  /\ noSupportSkip
  /\ pc = "mission"
  /\ missionIdx = 2
  /\ numMissions = 2

\* C18: free-running path with rolling-shutter compensation disabled: whatever
\* line count and line delay the camera has, the timestamp array holds exactly
\* one entry clamp(t + globalShift, min_ns, max_ns) per resource and every call
\* has exactly one pose.
C18_DisabledMeansOneLine ==
  (Optional /\ ~rsComp) =>
    /\ pc \in {"interp", "poll", "handle", "aborted"} =>
         /\ Len(resourceTimestamps) = Len(buffer)
         /\ \A i \in 1..Len(buffer) :
              resourceTimestamps[i] = Max(minNs, Min(maxNs, buffer[i] + shift))
    /\ \A k \in 1..Len(calls) : Len(calls[k].poses) = 1

C18_Witness ==
  /\ Optional
  /\ ~rsComp
  /\ camLines = 2
  /\ camDelay = 1
  /\ BufferExhausted
  /\ Len(calls) = 2
  /\ Len(resourceTimestamps) = 2

\* C19: free-running path: a handled resource whose t + globalShift is in
\* range is dispatched with lineCount poses whatever its line offsets are, and
\* the pose of every line whose timestamp t + globalShift + j * lineDelay
\* exceeds max_ns is the one interpolated at max_ns.
C19_LateLinesStillDispatched ==
  Optional =>
    (pc \in {"poll", "handle"} =>
       \A i \in 1..Len(buffer) :
         (i < resIdx /\ InRange(buffer[i])) =>
           \E k \in CallsFor(i) :
             /\ Len(calls[k].poses) = numLines
             /\ \A j \in 0..(numLines - 1) :
                  buffer[i] + shift + j * lineDelay > maxNs =>
                    calls[k].poses[j + 1] = <<missionIdx, maxNs, sensorIdx>>)

C19_Witness ==
  /\ Optional
  /\ numLines = 2
  /\ lineDelay = 1
  /\ \E k \in 1..Len(calls) :
       /\ InRange(calls[k].ts)
       /\ calls[k].ts + shift + lineDelay > maxNs
       /\ Len(calls[k].poses) = 2
       /\ calls[k].poses[2] = <<missionIdx, maxNs, sensorIdx>>

\* C20: both paths: once a poll has observed the break request the call is in
\* its aborted state, and from that state no step follows: no call of the
\* integration function, no call of the interpolator, no further resource,
\* vertex, sensor or mission, and the calls issued before stay as they are.
C20_State == observed => pc = "aborted"

C20_AbortIsTerminal ==
  /\ []C20_State
  /\ [][pc = "aborted" =>
          /\ pc' = "aborted"
          /\ calls' = calls
          /\ interpCalls' = interpCalls
          /\ lookups' = lookups
          /\ <<missionIdx, sensorIdx, resIdx, vertexIdx, frameIdx>>' =
               <<missionIdx, sensorIdx, resIdx, vertexIdx, frameIdx>>]_vars

C20_Witness ==
  /\ Optional
  /\ observed
  /\ pc = "aborted"
  /\ Len(calls) >= 1
  /\ resIdx <= Len(buffer)
  /\ missionIdx < numMissions

\* C21: free-running path: the pose cursor follows the resource cursor: after
\* the timestamp-building loop it equals numResources x lineCount, when the
\* k-th resource (0-based) is about to be handled it equals k x lineCount and
\* is below numResources x lineCount, and no assertion on the cursor fails.
C21_CursorAligned ==
  Optional =>
    /\ numLines >= 1
    /\ ~(pc = "fatal" /\ fatalCause = "cursor")
    /\ pc = "interp" => idx = Len(buffer) * numLines /\ idx = total
    /\ (pc \in {"poll", "handle"} /\ resIdx <= Len(buffer)) =>
         /\ idx = (resIdx - 1) * numLines
         /\ idx < Len(buffer) * numLines
    /\ BufferExhausted => idx = Len(buffer) * numLines

C21_Witness ==
  /\ Optional
  /\ pc = "handle"
  /\ Len(buffer) = 2
  /\ numLines = 2
  /\ resIdx = 2
  /\ idx = 2
  /\ Len(calls) = 1

====
